---- MODULE Spec2Model ----
(***************************************************************************)
(* Model of package volume (src/volume/volume.go): the Volume entity, its  *)
(* validation against the pool / team / provisioner / plan configuration,  *)
(* Save and Load against the volume collection, BindApp / UnbindApp and    *)
(* Binds against the bind collection, and ListByApp against both.          *)
(*                                                                         *)
(* Callers are processes.  A call that reaches the store is split at the   *)
(* storage operation: the first step runs the handler up to and including  *)
(* db.Conn(), the second runs the storage operation, the deferred          *)
(* conn.Close() and the return.  A finished call stays in "done" with its  *)
(* receiver as it was before the call (call.v), the receiver as the call   *)
(* left it (vol) and the result (res) until the caller takes the result.   *)
(***************************************************************************)
EXTENDS Naturals, Sequences, FiniteSets, TLC

VARIABLES
    volumes,   \* the volume collection: a set of stored documents
    binds,     \* the bind collection: a set of stored documents
    pc,        \* pc[p]: where caller p is
    call,      \* call[p]: the operation p is in, its receiver and arguments
    vol,       \* vol[p]: the receiver *Volume of p's call, as the call mutates it
    res,       \* res[p]: what p's call returned
    lookups,   \* lookups[p]: the registry lookups p's call made, in order
    conns,     \* conns[p]: storage connections p's call holds open
    saved,     \* history: per name, the Volume, as its caller built it, of the last Save that wrote it
    faults     \* storage failures injected so far

vars == <<volumes, binds, pc, call, vol, res, lookups, conns, saved, faults>>

(***************************************************************************)
(* Bounds of the model.                                                    *)
(***************************************************************************)
MaxFaults == 1      \* storage failures (db.Conn or a storage call) per run

Procs == {"c1", "c2"}

(***************************************************************************)
(* Go maps: a nil map and an empty map are different values with the same  *)
(* (empty) set of entries.                                                 *)
(***************************************************************************)
NilMap == [nil |-> TRUE, kv |-> {}]
MakeMap(kv) == [nil |-> FALSE, kv |-> kv]

(***************************************************************************)
(* Errors.                                                                 *)
(***************************************************************************)
ErrVolumeNotFound == "volume not found"
ErrVolumeAlreadyBound == "volume already bound in mountpoint"
ErrVolumeBindNotFound == "volume bind not found"
ErrEmptyName == "volume name cannot be empty"
ErrInvalidPlanOpts == "invalid type for plan opts"
ErrInvalidBindMode == "invalid bind mode"
ErrPoolNotFound == "pool does not exist"
ErrTeamNotFound == "team not found"
ErrNoProvisioner == "unknown provisioner"
ErrConfigKeyNotFound == "config key not found"
ErrConn == "db connection failed"
ErrStorage == "storage failure"

StorageErrors == {ErrConn, ErrStorage}

BindModeReadOnly == "ro"
BindModeReadWrite == "rw"

NoError == [err |-> "", detail |-> <<>>]
Error(e) == [err |-> e, detail |-> <<>>]
Errorf(e, args) == [err |-> e, detail |-> args]

(***************************************************************************)
(* The registries Validate consults.  They are external to volume.go: the  *)
(* model fixes one content for each, with an entry for every outcome.      *)
(***************************************************************************)
Pools == {"p1", "p2", "p3"}
GetPoolByName(name) ==
    IF name \in Pools THEN [err |-> "", pool |-> name]
    ELSE [err |-> ErrPoolNotFound, pool |-> ""]

Teams == {"team1"}
GetTeam(name) == IF name \in Teams THEN "" ELSE ErrTeamNotFound

GetProvisioner(pool) ==
    CASE pool = "p1" -> [err |-> "", name |-> "docker"]
      [] pool = "p3" -> [err |-> "", name |-> "kubernetes"]
      [] OTHER -> [err |-> ErrNoProvisioner, name |-> ""]

volumePlanKey(planName, provisioner) ==
    "volume-plans:" \o planName \o ":" \o provisioner

\* A configuration value: its Go type and, for a mapping, its entries.
ConfigEntries ==
    [k \in {"volume-plans:plan1:docker", "volume-plans:plan1:kubernetes",
            "volume-plans:plan2:docker", "volume-plans:plan3:docker"} |->
        CASE k = "volume-plans:plan1:docker" ->
                [type |-> "map[interface {}]interface {}",
                 kv |-> {<<"size", "10Gi">>}]
          [] k = "volume-plans:plan1:kubernetes" ->
                [type |-> "map[string]interface {}",
                 kv |-> {<<"size", "20Gi">>, <<"class", "fast">>}]
          [] k = "volume-plans:plan2:docker" ->
                [type |-> "string", kv |-> {}]
          [] OTHER ->
                [type |-> "[]interface {}", kv |-> {}]]

ConfigGet(key) ==
    IF key \in DOMAIN ConfigEntries
    THEN [err |-> "", data |-> ConfigEntries[key]]
    ELSE [err |-> ErrConfigKeyNotFound, data |-> [type |-> "nil", kv |-> {}]]

\* internalConfig.ConvertEntries: a map[interface{}]interface{} becomes a
\* map[string]interface{}; every other value is returned with its type.
ConvertEntries(data) ==
    IF data.type = "map[interface {}]interface {}"
    THEN [type |-> "map[string]interface {}", kv |-> data.kv]
    ELSE data

(***************************************************************************)
(* func (v *Volume) Validate() error                                       *)
(* The result carries the error, the receiver as Validate leaves it and    *)
(* the lookups made, in order.                                             *)
(***************************************************************************)
\* Validate assigning before it checks: a failed call leaves the receiver
\* with no plan options.
ValidateResult_OptsCleared(e, v, ls) ==
    [error |-> e,
     v |-> IF e.err = "" THEN v ELSE [v EXCEPT !.Plan.Opts = NilMap],
     lookups |-> ls]

ValidateResult(e, v, ls) == [error |-> e, v |-> v, lookups |-> ls]

\* v.Plan.Opts = planOpts, kept only when the caller supplied none.
SetPlanOpts_KeepSupplied(v, planOpts) ==
    IF v.Plan.Opts.nil THEN [v EXCEPT !.Plan.Opts = planOpts] ELSE v

\* v.Plan.Opts = planOpts
SetPlanOpts(v, planOpts) == [v EXCEPT !.Plan.Opts = planOpts]

\* Validate after the name check, consulting the team registry before the
\* pool registry.
ValidateResolve_TeamFirst(v) ==
    LET team == GetTeam(v.TeamOwner) IN
    IF team # ""
    THEN ValidateResult(Error(team), v, <<"team">>)
    ELSE LET pool == GetPoolByName(v.Pool) IN
    IF pool.err # ""
    THEN ValidateResult(Error(pool.err), v, <<"team", "pool">>)
    ELSE LET prov == GetProvisioner(pool.pool) IN
    IF prov.err # ""
    THEN ValidateResult(Error(prov.err), v, <<"team", "pool", "provisioner">>)
    ELSE LET got == ConfigGet(volumePlanKey(v.Plan.Name, prov.name)) IN
    IF got.err # ""
    THEN ValidateResult(Error(got.err), v,
                        <<"team", "pool", "provisioner", "config">>)
    ELSE LET converted == ConvertEntries(got.data)
             ok == converted.type = "map[string]interface {}"
         IN
    IF ~ok
    THEN ValidateResult(Errorf(ErrInvalidPlanOpts, <<"map[string]interface {}">>),
                        v, <<"team", "pool", "provisioner", "config">>)
    ELSE ValidateResult(NoError, SetPlanOpts(v, MakeMap(converted.kv)),
                        <<"team", "pool", "provisioner", "config">>)

\* Validate after the name check: the lookups, the type check, the assignment.
ValidateResolve(v) ==
    LET pool == GetPoolByName(v.Pool) IN
    IF pool.err # ""
    THEN ValidateResult(Error(pool.err), v, <<"pool">>)
    ELSE LET team == GetTeam(v.TeamOwner) IN
    IF team # ""
    THEN ValidateResult(Error(team), v, <<"pool", "team">>)
    ELSE LET prov == GetProvisioner(pool.pool) IN
    IF prov.err # ""
    THEN ValidateResult(Error(prov.err), v, <<"pool", "team", "provisioner">>)
    ELSE LET got == ConfigGet(volumePlanKey(v.Plan.Name, prov.name)) IN
    IF got.err # ""
    THEN ValidateResult(Error(got.err), v,
                        <<"pool", "team", "provisioner", "config">>)
    ELSE LET converted == ConvertEntries(got.data)
             ok == converted.type = "map[string]interface {}"
         IN
    IF ~ok
    \* the message carries %T of planOpts, the zero value of the asserted type
    THEN ValidateResult(Errorf(ErrInvalidPlanOpts, <<"map[string]interface {}">>),
                        v, <<"pool", "team", "provisioner", "config">>)
    ELSE ValidateResult(NoError, SetPlanOpts(v, MakeMap(converted.kv)),
                        <<"pool", "team", "provisioner", "config">>)

\* Validate without its name check.
Validate_NoNameCheck(v) == ValidateResolve(v)

Validate(v) ==
    IF v.Name = ""
    THEN ValidateResult(Error(ErrEmptyName), v, <<>>)
    ELSE ValidateResolve(v)

(***************************************************************************)
(* The Volume struct, its zero value and its bson encoding: Name is the    *)
(* document id, Opts is omitted when it has no entries (omitempty), and a  *)
(* decoded map is never nil unless its field was absent.                   *)
(***************************************************************************)
NewVolume(name, pool, planName, planOpts, teamOwner, status, opts) ==
    [Name |-> name, Pool |-> pool,
     Plan |-> [Name |-> planName, Opts |-> planOpts],
     TeamOwner |-> teamOwner, Status |-> status, Opts |-> opts]

ZeroVolume == NewVolume("", "", "", NilMap, "", "", NilMap)

\* The encoding were Status not an exported field: it is not stored.
Marshal_StatusUnexported(v) ==
    [id |-> v.Name, pool |-> v.Pool,
     plan |-> [name |-> v.Plan.Name, opts |-> v.Plan.Opts.kv],
     teamowner |-> v.TeamOwner, status |-> "",
     opts |-> IF v.Opts.kv = {} THEN [present |-> FALSE, kv |-> {}]
              ELSE [present |-> TRUE, kv |-> v.Opts.kv]]

Marshal(v) ==
    [id |-> v.Name, pool |-> v.Pool,
     plan |-> [name |-> v.Plan.Name, opts |-> v.Plan.Opts.kv],
     teamowner |-> v.TeamOwner, status |-> v.Status,
     opts |-> IF v.Opts.kv = {} THEN [present |-> FALSE, kv |-> {}]
              ELSE [present |-> TRUE, kv |-> v.Opts.kv]]

Unmarshal(doc) ==
    [Name |-> doc.id, Pool |-> doc.pool,
     Plan |-> [Name |-> doc.plan.name, Opts |-> MakeMap(doc.plan.opts)],
     TeamOwner |-> doc.teamowner, Status |-> doc.status,
     Opts |-> IF doc.opts.present THEN MakeMap(doc.opts.kv) ELSE NilMap]

(***************************************************************************)
(* The storage operations the handlers use, on a collection held as a set  *)
(* of documents with an id field.                                          *)
(***************************************************************************)
MgoDup == "E11000 duplicate key error"
MgoErrNotFound == "not found"

\* An upsert that only inserts: a stored document is kept as it is.
UpsertId_KeepsStored(coll, id, doc) ==
    IF \E d \in coll : d.id = id THEN coll ELSE coll \cup {doc}

\* Collection.UpsertId(id, doc): the document with this id is replaced, or
\* the document is created.
UpsertId(coll, id, doc) == {d \in coll : d.id # id} \cup {doc}

\* Insert as it would act were the composite ID not the document id: the
\* store would key each document itself and reject nothing.
Insert_NoUnique(coll, doc) == [err |-> "", coll |-> coll \cup {doc}]

\* Insert written as an upsert, as Save writes a volume.
Insert_Replace(coll, doc) == [err |-> "", coll |-> UpsertId(coll, doc.id, doc)]

\* Collection.Insert(doc): rejected when a document has the same id.
Insert(coll, doc) ==
    IF \E d \in coll : d.id = doc.id
    THEN [err |-> MgoDup, coll |-> coll]
    ELSE [err |-> "", coll |-> coll \cup {doc}]

\* RemoveId written as RemoveAll, which reports no missing document.
RemoveId_Silent(coll, id) == [err |-> "", coll |-> {d \in coll : d.id # id}]

\* Collection.RemoveId(id)
RemoveId(coll, id) ==
    IF \E d \in coll : d.id = id
    THEN [err |-> "", coll |-> {d \in coll : d.id # id}]
    ELSE [err |-> MgoErrNotFound, coll |-> coll]

\* FindId(id).One(&v) reporting no missing document: v stays the zero value.
FindId_NoErrNotFound(coll, id) ==
    IF \E d \in coll : d.id = id
    THEN [err |-> "", doc |-> CHOOSE d \in coll : d.id = id]
    ELSE [err |-> "", doc |-> Marshal(ZeroVolume)]

\* Collection.FindId(id).One(&v)
FindId(coll, id) ==
    IF \E d \in coll : d.id = id
    THEN [err |-> "", doc |-> CHOOSE d \in coll : d.id = id]
    ELSE [err |-> MgoErrNotFound, doc |-> Marshal(ZeroVolume)]

\* The query of Binds with an empty selector.
FindByVolume_Every(coll, name) == coll

\* Find(bson.M{"_id.volume": name}).All(&binds): every bind document whose
\* id has this volume component, each once.
FindByVolume(coll, name) == {b \in coll : b.id.Volume = name}

\* The first query of ListByApp without its app filter.
DistinctVolume_AnyApp(coll, appName) == {b.id.Volume : b \in coll}

\* Find(bson.M{"_id.app": appName}).Distinct("_id.volume", &volumeNames): the
\* volume components of the bind documents of this app, each value once.
DistinctVolume(coll, appName) ==
    {b.id.Volume : b \in {x \in coll : x.id.App = appName}}

\* Find(bson.M{"_id": bson.M{"$in": names}}).All(&volumes): every volume
\* document whose id is one of names, each once; a name with no document
\* matches nothing.
FindIn(coll, names) == {d \in coll : d.id \in names}

\* A duplicate key that is not recognised.
IsDup_Never(err) == FALSE

IsDup(err) == err = MgoDup

(***************************************************************************)
(* A caller's call record and result.                                      *)
(***************************************************************************)
NoCall ==
    [op |-> "", v |-> ZeroVolume, appName |-> "", mountPoint |-> "",
     mode |-> "", name |-> "", raced |-> FALSE, volumeNames |-> {}]

NoResult == [error |-> NoError, value |-> {}]
Result(e, value) == [error |-> e, value |-> value]

\* The caller starts a call: nothing is returned yet, no lookup was made.
Enter(p, c, v) ==
    /\ pc[p] = "idle"
    /\ call' = [call EXCEPT ![p] = c]
    /\ vol' = [vol EXCEPT ![p] = v]

\* The call returns r.
Leave(p, r) ==
    /\ pc' = [pc EXCEPT ![p] = "done"]
    /\ res' = [res EXCEPT ![p] = r]

\* db.Conn() succeeded: the call goes on to its storage operation.
Connected(p, next) ==
    /\ pc' = [pc EXCEPT ![p] = next]
    /\ conns' = [conns EXCEPT ![p] = conns[p] + 1]
    /\ UNCHANGED <<res, faults>>

\* db.Conn() failed: the call returns the wrapped error.
ConnFailed(p) ==
    /\ faults < MaxFaults
    /\ faults' = faults + 1
    /\ Leave(p, Result(Error(ErrConn), {}))
    /\ UNCHANGED conns

\* The connection left open: no deferred Close.
Close_Never(p) == UNCHANGED conns

\* defer conn.Close()
Close(p) == conns' = [conns EXCEPT ![p] = conns[p] - 1]

\* errors.WithStack(err): nil stays nil.
WithStack(err) == IF err = "" THEN NoError ELSE Error(err)

\* What a storage call can answer: r, or a failure of the backend's own that
\* leaves the store as it was.
Outcomes(r, failed) == {r} \cup (IF faults < MaxFaults THEN {failed} ELSE {})

\* The failures counted.
Counted(r) == faults' = IF r.err = ErrStorage THEN faults + 1 ELSE faults

(***************************************************************************)
(* v.Validate(), called by the caller itself.                              *)
(***************************************************************************)
ValidateCall(p, v) ==
    LET r == Validate(v) IN
    /\ Enter(p, [NoCall EXCEPT !.op = "Validate", !.v = v], r.v)
    /\ lookups' = [lookups EXCEPT ![p] = r.lookups]
    /\ Leave(p, Result(r.error, {}))
    /\ UNCHANGED <<volumes, binds, conns, saved, faults>>

(***************************************************************************)
(* func (v *Volume) Save() error                                           *)
(***************************************************************************)
\* Save going on to the upsert whatever Validate returned.
Save_WritesAnyway(p, v) ==
    LET r == Validate(v) IN
    /\ Enter(p, [NoCall EXCEPT !.op = "Save", !.v = v], r.v)
    /\ lookups' = [lookups EXCEPT ![p] = r.lookups]
    /\ Connected(p, "UpsertId") \/ ConnFailed(p)
    /\ UNCHANGED <<volumes, binds, saved>>

Save(p, v) ==
    LET r == Validate(v) IN
    /\ Enter(p, [NoCall EXCEPT !.op = "Save", !.v = v], r.v)
    /\ lookups' = [lookups EXCEPT ![p] = r.lookups]
    /\ IF r.error.err # ""
       THEN Leave(p, Result(r.error, {})) /\ UNCHANGED <<conns, faults>>
       ELSE Connected(p, "UpsertId") \/ ConnFailed(p)
    /\ UNCHANGED <<volumes, binds, saved>>

SaveUpsertId(p) ==
    /\ pc[p] = "UpsertId"
    /\ \E r \in Outcomes([err |-> "", coll |-> UpsertId(volumes, vol[p].Name, Marshal(vol[p]))],
                          [err |-> ErrStorage, coll |-> volumes]) :
          /\ Counted(r)
          /\ volumes' = r.coll
          /\ saved' = IF r.err = ""
                      THEN {s \in saved : s.Name # call[p].v.Name} \cup {call[p].v}
                      ELSE saved
          /\ Leave(p, Result(WithStack(r.err), {}))
    /\ Close(p)
    /\ UNCHANGED <<binds, call, vol, lookups>>

(***************************************************************************)
(* func Load(name string): the stored Volume, or an error                  *)
(***************************************************************************)
Load(p, name) ==
    /\ Enter(p, [NoCall EXCEPT !.op = "Load", !.name = name], ZeroVolume)
    /\ Connected(p, "FindId") \/ ConnFailed(p)
    /\ UNCHANGED <<volumes, binds, lookups, saved>>

LoadFindId(p) ==
    /\ pc[p] = "FindId"
    /\ \E r \in Outcomes(FindId(volumes, call[p].name),
                          [err |-> ErrStorage, doc |-> Marshal(ZeroVolume)]) :
          /\ Counted(r)
          /\ IF r.err = MgoErrNotFound
             THEN Leave(p, Result(Error(ErrVolumeNotFound), {}))
             ELSE IF r.err # ""
             THEN Leave(p, Result(WithStack(r.err), {}))
             ELSE Leave(p, Result(NoError, {Unmarshal(r.doc)}))
    /\ Close(p)
    /\ UNCHANGED <<volumes, binds, call, vol, lookups, saved>>

(***************************************************************************)
(* func (v *Volume) BindApp(appName, mountPoint string, mode BindMode)     *)
(***************************************************************************)
\* The default taken for the wrong constant.
DefaultMode_ReadOnly(mode) == IF mode = "" THEN BindModeReadOnly ELSE mode

\* if mode == "" { mode = BindModeReadWrite }
DefaultMode(mode) == IF mode = "" THEN BindModeReadWrite ELSE mode

\* The second comparison written == for !=: only "rw" is rejected.
InvalidMode_Typo(mode) == mode # BindModeReadOnly /\ mode = BindModeReadWrite

\* mode != BindModeReadOnly && mode != BindModeReadWrite
InvalidMode(mode) == mode # BindModeReadOnly /\ mode # BindModeReadWrite

VolumeBindID(appName, mountPoint, volume) ==
    [App |-> appName, MountPoint |-> mountPoint, Volume |-> volume]

\* The VolumeBind document: the composite ID is the document id.
VolumeBind(appName, mountPoint, volume, mode) ==
    [id |-> VolumeBindID(appName, mountPoint, volume), Mode |-> mode]

\* History, for the calls that race: q is past db.Conn in a BindApp of the
\* triple id, which has no record yet.  A BindApp of id entered now runs
\* concurrently with q's from a state with no record; both are marked.
Races(q, id) ==
    /\ pc[q] = "Insert"
    /\ VolumeBindID(call[q].appName, call[q].mountPoint, vol[q].Name) = id
    /\ ~\E b \in binds : b.id = id

BindApp(p, v, appName, mountPoint, mode) ==
    LET id == VolumeBindID(appName, mountPoint, v.Name)
        enters == ~InvalidMode(DefaultMode(mode)) /\ pc'[p] = "Insert"
    IN
    /\ pc[p] = "idle"
    /\ vol' = [vol EXCEPT ![p] = v]
    /\ IF InvalidMode(DefaultMode(mode))
       THEN /\ Leave(p, Result(Errorf(ErrInvalidBindMode,
                   <<BindModeReadOnly, BindModeReadWrite, DefaultMode(mode)>>), {}))
            /\ UNCHANGED <<conns, faults>>
       ELSE Connected(p, "Insert") \/ ConnFailed(p)
    /\ call' = [q \in Procs |->
          IF q = p
          THEN [NoCall EXCEPT !.op = "BindApp", !.v = v, !.appName = appName,
                              !.mountPoint = mountPoint, !.mode = mode,
                              !.raced = enters /\ \E o \in Procs \ {p} : Races(o, id)]
          ELSE IF enters /\ Races(q, id) THEN [call[q] EXCEPT !.raced = TRUE]
          ELSE call[q]]
    /\ UNCHANGED <<volumes, binds, lookups, saved>>

\* BindApp requiring the volume to be stored: the insert is refused with
\* ErrVolumeNotFound when the volume collection has no record of the name.
BindAppInsert_LoadsVolume(p) ==
    /\ pc[p] = "Insert"
    /\ LET bind == VolumeBind(call[p].appName, call[p].mountPoint, vol[p].Name,
                              DefaultMode(call[p].mode))
       IN \E r \in Outcomes(IF \E d \in volumes : d.id = vol[p].Name
                            THEN Insert(binds, bind)
                            ELSE [err |-> ErrVolumeNotFound, coll |-> binds],
                            [err |-> ErrStorage, coll |-> binds]) :
          /\ Counted(r)
          /\ binds' = r.coll
          /\ IF r.err # "" /\ IsDup(r.err)
             THEN Leave(p, Result(Error(ErrVolumeAlreadyBound), {}))
             ELSE Leave(p, Result(WithStack(r.err), {}))
    /\ Close(p)
    /\ UNCHANGED <<volumes, call, vol, lookups, saved>>

BindAppInsert(p) ==
    /\ pc[p] = "Insert"
    /\ LET bind == VolumeBind(call[p].appName, call[p].mountPoint, vol[p].Name,
                              DefaultMode(call[p].mode))
       IN \E r \in Outcomes(Insert(binds, bind), [err |-> ErrStorage, coll |-> binds]) :
          /\ Counted(r)
          /\ binds' = r.coll
          /\ IF r.err # "" /\ IsDup(r.err)
             THEN Leave(p, Result(Error(ErrVolumeAlreadyBound), {}))
             ELSE Leave(p, Result(WithStack(r.err), {}))
    /\ Close(p)
    /\ UNCHANGED <<volumes, call, vol, lookups, saved>>

(***************************************************************************)
(* func (v *Volume) UnbindApp(appName, mountPoint string) error            *)
(***************************************************************************)
UnbindApp(p, v, appName, mountPoint) ==
    /\ Enter(p, [NoCall EXCEPT !.op = "UnbindApp", !.v = v, !.appName = appName,
                               !.mountPoint = mountPoint],
             v)
    /\ Connected(p, "RemoveId") \/ ConnFailed(p)
    /\ UNCHANGED <<volumes, binds, lookups, saved>>

UnbindAppRemoveId(p) ==
    /\ pc[p] = "RemoveId"
    /\ LET id == VolumeBindID(call[p].appName, call[p].mountPoint, vol[p].Name)
       IN \E r \in Outcomes(RemoveId(binds, id), [err |-> ErrStorage, coll |-> binds]) :
          /\ Counted(r)
          /\ binds' = r.coll
          /\ IF r.err = MgoErrNotFound
             THEN Leave(p, Result(Error(ErrVolumeBindNotFound), {}))
             ELSE Leave(p, Result(WithStack(r.err), {}))
    /\ Close(p)
    /\ UNCHANGED <<volumes, call, vol, lookups, saved>>

(***************************************************************************)
(* func (v *Volume) Binds(): the VolumeBind list, or an error              *)
(***************************************************************************)
Binds(p, v) ==
    /\ Enter(p, [NoCall EXCEPT !.op = "Binds", !.v = v], v)
    /\ Connected(p, "FindAll") \/ ConnFailed(p)
    /\ UNCHANGED <<volumes, binds, lookups, saved>>

\* The query's error is returned as it is.
BindsFindAll(p) ==
    /\ pc[p] = "FindAll"
    /\ \E r \in Outcomes([err |-> "", docs |-> FindByVolume(binds, vol[p].Name)],
                          [err |-> ErrStorage, docs |-> {}]) :
          /\ Counted(r)
          /\ IF r.err # ""
             THEN Leave(p, Result(Error(r.err), {}))
             ELSE Leave(p, Result(NoError, r.docs))
    /\ Close(p)
    /\ UNCHANGED <<volumes, binds, call, vol, lookups, saved>>

(***************************************************************************)
(* func ListByApp(appName string): the Volume list, or an error            *)
(* Two queries on one connection: the names, then the volumes.             *)
(***************************************************************************)
ListByApp(p, appName) ==
    /\ Enter(p, [NoCall EXCEPT !.op = "ListByApp", !.appName = appName], ZeroVolume)
    /\ Connected(p, "Distinct") \/ ConnFailed(p)
    /\ UNCHANGED <<volumes, binds, lookups, saved>>

\* The first query's error is returned as it is; else volumeNames is held
\* for the second query, on the same connection.
ListByAppDistinct(p) ==
    /\ pc[p] = "Distinct"
    /\ \E r \in Outcomes([err |-> "", names |-> DistinctVolume(binds, call[p].appName)],
                          [err |-> ErrStorage, names |-> {}]) :
          /\ Counted(r)
          /\ IF r.err # ""
             THEN /\ Leave(p, Result(Error(r.err), {}))
                  /\ Close(p)
                  /\ UNCHANGED call
             ELSE /\ pc' = [pc EXCEPT ![p] = "FindIn"]
                  /\ call' = [call EXCEPT ![p].volumeNames = r.names]
                  /\ UNCHANGED <<res, conns>>
    /\ UNCHANGED <<volumes, binds, vol, lookups, saved>>

ListByAppFindIn(p) ==
    /\ pc[p] = "FindIn"
    /\ \E r \in Outcomes([err |-> "", docs |-> FindIn(volumes, call[p].volumeNames)],
                          [err |-> ErrStorage, docs |-> {}]) :
          /\ Counted(r)
          /\ IF r.err # ""
             THEN Leave(p, Result(WithStack(r.err), {}))
             ELSE Leave(p, Result(NoError, {Unmarshal(d) : d \in r.docs}))
    /\ Close(p)
    /\ UNCHANGED <<volumes, binds, call, vol, lookups, saved>>

(***************************************************************************)
(* The caller takes the result: its call record is gone.                   *)
(***************************************************************************)
Return(p) ==
    /\ pc[p] = "done"
    /\ pc' = [pc EXCEPT ![p] = "idle"]
    /\ call' = [call EXCEPT ![p] = NoCall]
    /\ vol' = [vol EXCEPT ![p] = ZeroVolume]
    /\ res' = [res EXCEPT ![p] = NoResult]
    /\ lookups' = [lookups EXCEPT ![p] = <<>>]
    /\ UNCHANGED <<volumes, binds, conns, saved, faults>>

(***************************************************************************)
(* Inputs.                                                                 *)
(***************************************************************************)
VolumeNames == {"", "v1", "v2"}
PoolNames == {"p0", "p1", "p2", "p3"}
PlanNames == {"plan0", "plan1", "plan2", "plan3"}
TeamNames == {"team0", "team1"}
\* What a caller puts in Plan.Opts and Opts: nothing; plan options of its own
\* and an empty, non-nil Opts; no plan options and one driver option.
Payloads ==
    {[planOpts |-> NilMap, opts |-> NilMap],
     [planOpts |-> MakeMap({<<"size", "1Gi">>}), opts |-> MakeMap({})],
     [planOpts |-> NilMap, opts |-> MakeMap({<<"k", "v">>})]}

\* Every Volume a caller of Validate, Save and Load builds.
AllVolumes ==
    {NewVolume(n, pl, pn, x.planOpts, t, "ready", x.opts) :
        n \in VolumeNames, pl \in PoolNames, pn \in PlanNames,
        t \in TeamNames, x \in Payloads}

\* The receivers and coordinates concurrent callers bind and unbind: one
\* volume at two mount points of an app, and another volume at the first of
\* these mount points of another app.
V1 == NewVolume("v1", "p1", "plan1", NilMap, "team1", "ready", NilMap)
V2 == NewVolume("v2", "p1", "plan1", NilMap, "team1", "ready", NilMap)
BindCalls ==
    {[v |-> V1, appName |-> "app1", mountPoint |-> "/data"],
     [v |-> V1, appName |-> "app1", mountPoint |-> "/logs"],
     [v |-> V2, appName |-> "app2", mountPoint |-> "/data"]}
Modes == {"", "ro", "rw", "xx"}

\* The Volumes concurrent callers save: two of the name "v1" that differ in
\* every other field Validate accepts a difference in (the first with a
\* driver option, the second with none), one of another name, and one that
\* Validate rejects.
SaveVolumes ==
    {NewVolume("v1", "p1", "plan1", NilMap, "team1", "ready",
               MakeMap({<<"k", "v">>})),
     NewVolume("v1", "p3", "plan1", MakeMap({<<"size", "1Gi">>}), "team1",
               "pending", NilMap),
     NewVolume("v2", "p1", "plan1", NilMap, "team1", "ready", NilMap),
     NewVolume("v1", "p0", "plan1", NilMap, "team1", "ready", NilMap)}

(***************************************************************************)
(* Specifications.                                                         *)
(***************************************************************************)
Init ==
    /\ volumes = {}
    /\ binds = {}
    /\ pc = [p \in Procs |-> "idle"]
    /\ call = [p \in Procs |-> NoCall]
    /\ vol = [p \in Procs |-> ZeroVolume]
    /\ res = [p \in Procs |-> NoResult]
    /\ lookups = [p \in Procs |-> <<>>]
    /\ conns = [p \in Procs |-> 0]
    /\ saved = {}
    /\ faults = 0

\* Concurrent callers binding and unbinding.
Next ==
    \E p \in Procs :
        \/ \E c \in BindCalls, mode \in Modes :
              BindApp(p, c.v, c.appName, c.mountPoint, mode)
        \/ BindAppInsert(p)
        \/ \E c \in BindCalls : UnbindApp(p, c.v, c.appName, c.mountPoint)
        \/ UnbindAppRemoveId(p)
        \/ Return(p)

Spec == Init /\ [][Next]_vars

\* One caller validating, saving and loading every Volume of AllVolumes.
NextVol ==
    \E p \in {"c1"} :
        \/ \E v \in AllVolumes : ValidateCall(p, v)
        \/ \E v \in AllVolumes : Save(p, v)
        \/ SaveUpsertId(p)
        \/ \E n \in VolumeNames : Load(p, n)
        \/ LoadFindId(p)
        \/ Return(p)

SpecVol == Init /\ [][NextVol]_vars

\* One caller using every operation on both collections.  V3 names a pool
\* that does not exist: no Save stores it, and it is bound all the same.
V3 == NewVolume("v3", "p0", "plan1", NilMap, "team1", "ready", NilMap)
StoreVolumes == {V1, V2, V3}
StoreBinds ==
    {[v |-> V1, appName |-> "app1", mountPoint |-> "/data"],
     [v |-> V1, appName |-> "app1", mountPoint |-> "/logs"],
     [v |-> V1, appName |-> "app2", mountPoint |-> "/data"],
     [v |-> V2, appName |-> "app1", mountPoint |-> "/data"],
     [v |-> V3, appName |-> "app1", mountPoint |-> "/cache"]}
StoreModes == {"", "ro", "xx"}
AppNames == {"app1", "app2", "app3"}

NextStore ==
    \E p \in {"c1"} :
        \/ \E v \in StoreVolumes : Save(p, v)
        \/ SaveUpsertId(p)
        \/ \E n \in {v.Name : v \in StoreVolumes} : Load(p, n)
        \/ LoadFindId(p)
        \/ \E c \in StoreBinds, mode \in StoreModes :
              BindApp(p, c.v, c.appName, c.mountPoint, mode)
        \/ BindAppInsert(p)
        \/ \E c \in StoreBinds : UnbindApp(p, c.v, c.appName, c.mountPoint)
        \/ UnbindAppRemoveId(p)
        \/ \E v \in StoreVolumes : Binds(p, v)
        \/ BindsFindAll(p)
        \/ \E a \in AppNames : ListByApp(p, a)
        \/ ListByAppDistinct(p)
        \/ ListByAppFindIn(p)
        \/ Return(p)

SpecStore == Init /\ [][NextStore]_vars

\* Concurrent callers saving the Volumes of SaveVolumes.
NextSave ==
    \E p \in Procs :
        \/ \E v \in SaveVolumes : Save(p, v)
        \/ SaveUpsertId(p)
        \/ Return(p)

SpecSave == Init /\ [][NextSave]_vars

(***************************************************************************)
(* Properties.                                                             *)
(***************************************************************************)
Err(p) == res[p].error.err
Done(p, op) == pc[p] = "done" /\ call[p].op = op
CallID(p) == VolumeBindID(call[p].appName, call[p].mountPoint, call[p].v.Name)
Bound(bs, id) == \E b \in bs : b.id = id
ValidModes == {"", BindModeReadOnly, BindModeReadWrite}

\* p's call enters the handler op in this step.
Enters(p, op) == pc[p] = "idle" /\ pc'[p] # "idle" /\ call'[p].op = op
\* p's storage operation at, and its return, happen in this step.
Runs(p, at) == pc[p] = at /\ pc'[p] = "done"

\* C1: in every reachable state the bind collection holds at most one record
\* per (app, mount point, volume) triple.
C1_OneBindPerTriple ==
    \A b1, b2 \in binds :
        (/\ b1.id.App = b2.id.App
         /\ b1.id.MountPoint = b2.id.MountPoint
         /\ b1.id.Volume = b2.id.Volume) => b1 = b2

\* Every triple is bound and a further BindApp of one of them, with another
\* mode, was rejected.
C1_Witness ==
    /\ Cardinality(binds) = Cardinality(BindCalls)
    /\ \E p \in Procs :
          /\ Done(p, "BindApp") /\ Err(p) = ErrVolumeAlreadyBound
          /\ \E b \in binds : b.id = CallID(p) /\ b.Mode # DefaultMode(call[p].mode)

\* A BindApp with a valid mode: with storageFailures, a failure of db.Conn or
\* of the insert is an accepted outcome that leaves the bind collection as it
\* was; without, the call reaches the insert, which succeeds and adds exactly
\* one record when the triple has none, and fails with ErrVolumeAlreadyBound
\* and changes nothing (the stored mode included) when it has one.
BindOnce(p, storageFailures) ==
    /\ (Enters(p, "BindApp") /\ call'[p].mode \in ValidModes) =>
          \/ pc'[p] = "Insert" /\ binds' = binds
          \/ storageFailures /\ pc'[p] = "done" /\ Err(p)' = ErrConn /\ binds' = binds
    /\ (Runs(p, "Insert") /\ call[p].op = "BindApp") =>
          \/ /\ ~Bound(binds, CallID(p))
             /\ Err(p)' = ""
             /\ \E b \in binds' \ binds : b.id = CallID(p) /\ binds' = binds \cup {b}
             /\ Cardinality(binds') = Cardinality(binds) + 1
          \/ /\ Bound(binds, CallID(p))
             /\ Err(p)' = ErrVolumeAlreadyBound
             /\ binds' = binds
          \/ storageFailures /\ Err(p)' = ErrStorage /\ binds' = binds

\* C2, as stated: the first BindApp of a triple with a valid mode succeeds and
\* creates exactly one record; a second one while the record exists fails with
\* ErrVolumeAlreadyBound and leaves the bind collection unchanged.
C2_AsStated == [][\A p \in Procs : BindOnce(p, FALSE)]_vars

\* C2, amended: the same, for calls in which neither db.Conn nor the insert
\* fails for a reason of the store's own; such a failure is returned and
\* leaves the bind collection unchanged.
C2_BindOnceUnlessStorageFails == [][\A p \in Procs : BindOnce(p, TRUE)]_vars

\* A second BindApp of a bound triple, asking for "rw" where "ro" is stored,
\* was rejected and "ro" is still stored.
C2_Witness ==
    \E p \in Procs :
        /\ Done(p, "BindApp") /\ Err(p) = ErrVolumeAlreadyBound
        /\ DefaultMode(call[p].mode) = BindModeReadWrite
        /\ \E b \in binds : b.id = CallID(p) /\ b.Mode = BindModeReadOnly

\* Two BindApp calls of the same triple that ran concurrently from a state
\* with no record for it (Raced), both returned.  With storageFailures a
\* failed db.Conn or insert is an accepted outcome of either call, the other
\* call then succeeding unless it failed so too; without, exactly one call
\* holds the success and the other ErrVolumeAlreadyBound.
\* In either case they do not both succeed, and when one succeeded exactly
\* one record, with the winner's mode, results.
Raced(p, q) ==
    /\ p # q
    /\ call[p].op = "BindApp" /\ call[q].op = "BindApp"
    /\ CallID(p) = CallID(q)
    /\ call[p].raced /\ call[q].raced

OneWinner(p, q, storageFailures) ==
    (Raced(p, q) /\ pc[p] = "done" /\ pc[q] = "done") =>
        /\ \/ Err(p) = "" /\ Err(q) = ErrVolumeAlreadyBound
           \/ Err(p) = ErrVolumeAlreadyBound /\ Err(q) = ""
           \/ storageFailures /\ Err(p) \in StorageErrors
                  /\ Err(q) \in {""} \cup StorageErrors
           \/ storageFailures /\ Err(q) \in StorageErrors
                  /\ Err(p) \in {""} \cup StorageErrors
        /\ ~(Err(p) = "" /\ Err(q) = "")
        /\ Err(p) = "" =>
              {b \in binds : b.id = CallID(p)} =
                  {VolumeBind(call[p].appName, call[p].mountPoint, call[p].v.Name,
                              DefaultMode(call[p].mode))}

\* C3, as stated: of two concurrent BindApp calls of an unbound triple, in
\* every interleaving exactly one succeeds and the other returns
\* ErrVolumeAlreadyBound; never both succeed and exactly one record results.
C3_AsStated == \A p, q \in Procs : OneWinner(p, q, FALSE)

\* C3, amended: the same in every interleaving in which neither call fails
\* for a reason of the store's own (db.Conn or the insert); in every
\* interleaving the two calls never both succeed.
C3_OneWinnerUnlessStorageFails == \A p, q \in Procs : OneWinner(p, q, TRUE)

\* Both callers bound the same unbound triple concurrently, asking for
\* different modes: one holds the success, the other ErrVolumeAlreadyBound.
C3_Witness ==
    \E p, q \in Procs :
        /\ Raced(p, q) /\ pc[p] = "done" /\ pc[q] = "done"
        /\ Err(p) = "" /\ Err(q) = ErrVolumeAlreadyBound
        /\ DefaultMode(call[p].mode) # DefaultMode(call[q].mode)

\* An UnbindApp: with storageFailures, a failure of db.Conn or of the removal
\* is an accepted outcome that changes nothing; without, the call reaches the
\* removal, which succeeds and removes the triple's record and no other when
\* there is one, and fails with ErrVolumeBindNotFound and changes nothing
\* when there is none.
UnbindOnce(p, storageFailures) ==
    /\ Enters(p, "UnbindApp") =>
          \/ pc'[p] = "RemoveId" /\ binds' = binds
          \/ storageFailures /\ pc'[p] = "done" /\ Err(p)' = ErrConn /\ binds' = binds
    /\ (Runs(p, "RemoveId") /\ call[p].op = "UnbindApp") =>
          \/ /\ Bound(binds, CallID(p))
             /\ Err(p)' = ""
             /\ ~Bound(binds', CallID(p))
             /\ \E b \in binds : b.id = CallID(p) /\ binds' = binds \ {b}
          \/ /\ ~Bound(binds, CallID(p))
             /\ Err(p)' = ErrVolumeBindNotFound
             /\ binds' = binds
          \/ storageFailures /\ Err(p)' = ErrStorage /\ binds' = binds

\* C4, as stated: UnbindApp of a bound triple succeeds and removes exactly
\* that record; UnbindApp of an unbound triple (a repeated unbind included)
\* fails with ErrVolumeBindNotFound and changes nothing.
C4_AsStated == [][\A p \in Procs : UnbindOnce(p, FALSE)]_vars

\* C4, amended: the same, for calls in which neither db.Conn nor the removal
\* fails for a reason of the store's own; such a failure is returned and
\* leaves the bind collection unchanged.
C4_UnbindOnceUnlessStorageFails == [][\A p \in Procs : UnbindOnce(p, TRUE)]_vars

\* One caller unbound a triple, the other's unbind of the same triple then
\* found nothing, and the binds of other triples are still there.
C4_Witness ==
    \E p, q \in Procs :
        /\ p # q /\ Done(p, "UnbindApp") /\ Done(q, "UnbindApp")
        /\ CallID(p) = CallID(q)
        /\ Err(p) = "" /\ Err(q) = ErrVolumeBindNotFound
        /\ binds # {} /\ ~Bound(binds, CallID(p))

\* C5: BindApp with a mode that is not empty, "ro" or "rw" returns the
\* invalid-bind-mode error, which names both valid modes and the mode given,
\* opens no connection and leaves the bind collection as it was.
C5_InvalidModeRejected ==
    [][\A p \in Procs :
        (Enters(p, "BindApp") /\ call'[p].mode \notin ValidModes) =>
            /\ pc'[p] = "done"
            /\ res'[p].error = Errorf(ErrInvalidBindMode,
                   <<BindModeReadOnly, BindModeReadWrite, call'[p].mode>>)
            /\ binds' = binds
            /\ conns' = conns /\ faults' = faults]_vars

\* A BindApp with mode "xx" of a triple that is bound was rejected.
C5_Witness ==
    \E p \in Procs :
        /\ Done(p, "BindApp") /\ call[p].mode = "xx"
        /\ Err(p) = ErrInvalidBindMode
        /\ Bound(binds, CallID(p))

\* C6: every stored bind record has mode "ro" or "rw"; the record a
\* successful BindApp stores has mode "rw" when the call's mode is empty and
\* the mode given otherwise.
C6_StoredMode ==
    [][/\ \A b \in binds' : b.Mode \in {BindModeReadOnly, BindModeReadWrite}
       /\ \A p \in Procs :
            (Runs(p, "Insert") /\ call[p].op = "BindApp" /\ Err(p)' = "") =>
                \E b \in binds' :
                    /\ b.id = CallID(p)
                    /\ b.Mode = IF call[p].mode = "" THEN BindModeReadWrite
                                ELSE call[p].mode]_vars

\* A BindApp with the empty mode succeeded and its record holds "rw", beside
\* a record that holds "ro".
C6_Witness ==
    /\ \E p \in Procs :
          /\ Done(p, "BindApp") /\ call[p].mode = "" /\ Err(p) = ""
          /\ \E b \in binds : b.id = CallID(p) /\ b.Mode = BindModeReadWrite
    /\ \E b \in binds : b.Mode = BindModeReadOnly

\* The plan configuration of v resolves: every lookup of Validate answers and
\* the value found is a mapping.
PlanConfig(v) ==
    ConfigGet(volumePlanKey(v.Plan.Name, GetProvisioner(v.Pool).name))
IsMapping(data) ==
    data.type \in {"map[interface {}]interface {}", "map[string]interface {}"}
Resolves(v) ==
    /\ GetPoolByName(v.Pool).err = ""
    /\ GetTeam(v.TeamOwner) = ""
    /\ GetProvisioner(v.Pool).err = ""
    /\ PlanConfig(v).err = ""
    /\ IsMapping(PlanConfig(v).data)
ResolvedOpts(v) == MakeMap(PlanConfig(v).data.kv)

\* C7: Validate and Save of a volume with an empty name return the empty-name
\* error at once: no lookup is made, no connection is opened, the receiver
\* and the store are left as they were.
C7_EmptyNameFirst ==
    [][\A p \in Procs :
        ((Enters(p, "Validate") \/ Enters(p, "Save")) /\ call'[p].v.Name = "") =>
            /\ pc'[p] = "done"
            /\ res'[p] = Result(Error(ErrEmptyName), {})
            /\ lookups'[p] = <<>>
            /\ vol'[p] = call'[p].v
            /\ conns' = conns /\ faults' = faults
            /\ volumes' = volumes /\ binds' = binds]_vars

\* Save of a volume with an empty name, an unknown pool and an unknown team
\* returned the empty-name error, with volumes stored.
C7_Witness ==
    \E p \in Procs :
        /\ Done(p, "Save") /\ call[p].v.Name = ""
        /\ call[p].v.Pool \notin Pools /\ call[p].v.TeamOwner \notin Teams
        /\ Err(p) = ErrEmptyName /\ lookups[p] = <<>>
        /\ volumes # {}

\* C8: Validate of a volume with a non-empty name whose pool, team,
\* provisioner and plan configuration resolve, the configuration being a
\* mapping, succeeds and leaves the receiver as it was but for Plan.Opts,
\* which is the resolved mapping whatever it was before.
C8_ValidateSetsPlanOpts ==
    \A p \in Procs :
        (Done(p, "Validate") /\ call[p].v.Name # "" /\ Resolves(call[p].v)) =>
            /\ res[p] = NoResult
            /\ vol[p].Plan.Opts = ResolvedOpts(call[p].v)
            /\ vol[p].Name = call[p].v.Name
            /\ vol[p].Pool = call[p].v.Pool
            /\ vol[p].Plan.Name = call[p].v.Plan.Name
            /\ vol[p].TeamOwner = call[p].v.TeamOwner
            /\ vol[p].Status = call[p].v.Status
            /\ vol[p].Opts = call[p].v.Opts

\* Validate succeeded on a volume whose caller had supplied other plan
\* options: the receiver now holds the configured ones.
C8_Witness ==
    \E p \in Procs :
        /\ Done(p, "Validate") /\ Err(p) = ""
        /\ ~call[p].v.Plan.Opts.nil
        /\ call[p].v.Plan.Opts # vol[p].Plan.Opts
        /\ vol[p].Plan.Opts = MakeMap({<<"size", "10Gi">>})

\* C9: Save of a volume that Validate rejects (empty name, unknown pool or
\* team, no provisioner, plan configuration missing or not a mapping)
\* returns Validate's error, opens no connection and leaves the volume
\* collection as it was.
C9_SaveReturnsValidationError ==
    [][\A p \in Procs :
        (Enters(p, "Save")
            /\ (call'[p].v.Name = "" \/ ~Resolves(call'[p].v))) =>
            /\ pc'[p] = "done"
            /\ res'[p].error # NoError
            /\ res'[p].error = Validate(call'[p].v).error
            /\ conns' = conns
            /\ volumes' = volumes]_vars

\* Save of a volume whose plan configuration is not a mapping was rejected
\* while a record of the same name is stored.
C9_Witness ==
    \E p \in Procs :
        /\ Done(p, "Save") /\ Err(p) = ErrInvalidPlanOpts
        /\ \E d \in volumes : d.id = call[p].v.Name

\* Load of a name that a Save wrote: with storageFailures a failure of
\* db.Conn or of the query is an accepted outcome; without, Load succeeds
\* and returns the Volume of the last Save of that name: the same Name, Pool,
\* Plan.Name, TeamOwner and Status, Plan.Opts the mapping the configuration
\* holds for its plan, and Opts with the same entries, nil when there are none.
RoundTrip(p, storageFailures) ==
    \A s \in saved :
        (Done(p, "Load") /\ call[p].name = s.Name) =>
            \/ storageFailures /\ Err(p) \in StorageErrors /\ res[p].value = {}
            \/ /\ Err(p) = ""
               /\ \E l \in res[p].value :
                    /\ res[p].value = {l}
                    /\ l.Name = s.Name
                    /\ l.Pool = s.Pool
                    /\ l.Plan.Name = s.Plan.Name
                    /\ l.TeamOwner = s.TeamOwner
                    /\ l.Status = s.Status
                    /\ l.Plan.Opts = ResolvedOpts(s)
                    /\ l.Opts.kv = s.Opts.kv
                    /\ l.Opts.nil = (s.Opts.kv = {})

\* C10, as stated: after a successful Save, Load of that name succeeds and
\* returns the saved volume, with the plan options resolved by that Save.
C10_AsStated == \A p \in Procs : RoundTrip(p, FALSE)

\* C10, amended: the same, unless db.Conn or the query of the Load fails for
\* a reason of the store's own, which Load returns with no volume.
C10_RoundTripUnlessStorageFails == \A p \in Procs : RoundTrip(p, TRUE)

\* Load returned a volume saved with an empty, non-nil Opts and with plan
\* options of the caller's: Opts came back nil, Plan.Opts as configured.
C10_Witness ==
    \E p \in Procs, s \in saved :
        /\ Done(p, "Load") /\ call[p].name = s.Name /\ Err(p) = ""
        /\ s.Opts = MakeMap({}) /\ ~s.Plan.Opts.nil
        /\ \E l \in res[p].value :
              l.Opts = NilMap /\ l.Plan.Opts # s.Plan.Opts /\ l.Status = "ready"

\* The document a Save of the caller-built Volume s stores: its fields, the
\* plan options the configuration holds for its plan, and its Opts when it
\* has entries.
StoredDoc(s) ==
    [id |-> s.Name, pool |-> s.Pool,
     plan |-> [name |-> s.Plan.Name, opts |-> ResolvedOpts(s).kv],
     teamowner |-> s.TeamOwner, status |-> s.Status,
     opts |-> [present |-> s.Opts.kv # {}, kv |-> s.Opts.kv]]

\* For every name a Save wrote, the volume collection holds exactly one
\* record, the document of the Save that wrote last.
LastWriterWins ==
    \A s \in saved : {d \in volumes : d.id = s.Name} = {StoredDoc(s)}

\* C11: Save is an upsert by name with last-writer-wins.  The storage write
\* of a successful Save leaves exactly one record of its name, its own
\* document in full, and leaves the records of other names as they were; so
\* after any interleaving of successful Saves of a name the collection holds
\* exactly one record of that name, the document of the Save whose write
\* executed last.
C11_LastWriterWins ==
    [][/\ \A p \in Procs :
            (Runs(p, "UpsertId") /\ Err(p)' = "") =>
                /\ {d \in volumes' : d.id = call[p].v.Name} = {StoredDoc(call[p].v)}
                /\ {d \in volumes' : d.id # call[p].v.Name} =
                       {d \in volumes : d.id # call[p].v.Name}
       /\ LastWriterWins']_vars

\* Two callers saved "v1" with different fields and both succeeded, p's
\* write being the last: the record is p's document, without the driver
\* option of q's, beside the record of "v2".
C11_Witness ==
    \E p, q \in Procs, s \in saved :
        /\ p # q /\ Done(p, "Save") /\ Done(q, "Save")
        /\ Err(p) = "" /\ Err(q) = ""
        /\ call[p].v.Name = "v1" /\ call[q].v.Name = "v1"
        /\ call[q].v.Opts.kv # {} /\ call[p].v.Opts.kv = {}
        /\ s = call[p].v
        /\ {d \in volumes : d.id = "v1"} = {StoredDoc(call[p].v)}
        /\ \E d \in volumes : d.id = "v2"

\* The Volume a Load or a ListByApp returns for the caller-built Volume s of
\* the Save that wrote its record: s with the plan options the configuration
\* holds, and a nil Opts when s had no entries.
LoadedVolume(s) ==
    [s EXCEPT !.Plan.Opts = ResolvedOpts(s),
              !.Opts = IF s.Opts.kv = {} THEN NilMap ELSE s.Opts]

\* The names of the volumes bound to app, at whatever mount point.
BoundTo(app) == {b.id.Volume : b \in {x \in binds : x.id.App = app}}

\* A ListByApp of a caller that is alone on the store, returned.  With
\* storageFailures a failure of db.Conn or of either query is an accepted
\* outcome, returned with no list; without, the call succeeds and returns
\* the stored volumes whose name a bind of the app holds: each once, none
\* when the app has no bind, and nothing for a name that has no record.
ListsBound(p, storageFailures) ==
    Done(p, "ListByApp") =>
        \/ storageFailures /\ Err(p) \in StorageErrors /\ res[p].value = {}
        \/ /\ Err(p) = ""
           /\ res[p].value =
                 {LoadedVolume(s) : s \in {x \in saved : x.Name \in BoundTo(call[p].appName)}}
           /\ \A x, y \in res[p].value : x.Name = y.Name => x = y
           /\ Cardinality(res[p].value) =
                 Cardinality({n \in BoundTo(call[p].appName) : \E d \in volumes : d.id = n})
           /\ BoundTo(call[p].appName) = {} => res[p].value = {}

\* C12, as stated: on a store that is not concurrently modified ListByApp
\* returns exactly the stored volumes bound to the app, each once, an empty
\* list without error when the app has no binds, and omits without error a
\* bound name that has no volume record.
C12_AsStated == \A p \in Procs : ListsBound(p, FALSE)

\* C12, amended: the same, unless db.Conn or one of the two queries fails for
\* a reason of the store's own, which ListByApp returns with no list.
C12_ListsBoundUnlessStorageFails == \A p \in Procs : ListsBound(p, TRUE)

\* ListByApp of an app that has "v1" at two mount points, "v2" at one and the
\* never-saved "v3" at another returned the two stored volumes, each once.
C12_Witness ==
    \E p \in Procs :
        /\ Done(p, "ListByApp") /\ Err(p) = ""
        /\ Cardinality({b \in binds : b.id.App = call[p].appName /\ b.id.Volume = "v1"}) = 2
        /\ BoundTo(call[p].appName) = {"v1", "v2", "v3"}
        /\ {v.Name : v \in res[p].value} = {"v1", "v2"}
        /\ Cardinality(res[p].value) = 2

\* p's call of op takes a step: it enters the handler or runs a storage
\* operation of it.
Acts(p, op) == pc'[p] # pc[p] /\ call'[p].op = op

\* A Binds call of a caller that is alone on the store: no step of it changes
\* either collection; returned, with storageFailures a failure of db.Conn or
\* of the query is an accepted outcome, with no list; without, the call
\* succeeds and its list is the bind records of the receiver's name, whatever
\* their app and mount point, and no record of another volume: the empty
\* list when there is none.
BindsOfVolume(p, storageFailures) ==
    /\ Acts(p, "Binds") => volumes' = volumes /\ binds' = binds
    /\ Done(p, "Binds")' =>
          \/ storageFailures /\ Err(p)' \in StorageErrors /\ res'[p].value = {}
          \/ /\ Err(p)' = ""
             /\ \A b \in res'[p].value : b \in binds' /\ b.id.Volume = call'[p].v.Name
             /\ \A b \in binds' \ res'[p].value : b.id.Volume # call'[p].v.Name

\* C13, as stated: Binds() returns exactly the bind records of the volume's
\* name, across apps and mount points; when there are none it returns a
\* successful empty list; it never modifies the store.
C13_AsStated == [][\A p \in Procs : BindsOfVolume(p, FALSE)]_vars

\* C13, amended: the same, unless db.Conn or the query fails for a reason of
\* the store's own, which Binds returns with no list.
C13_BindsOfVolumeUnlessStorageFails == [][\A p \in Procs : BindsOfVolume(p, TRUE)]_vars

\* Binds of "v1" returned its three records, of two apps and two mount
\* points, while binds of "v2" and "v3" are stored.
C13_Witness ==
    \E p \in Procs :
        /\ Done(p, "Binds") /\ Err(p) = "" /\ call[p].v.Name = "v1"
        /\ Cardinality(res[p].value) = 3
        /\ {b.id.App : b \in res[p].value} = {"app1", "app2"}
        /\ {b.id.Volume : b \in binds} = {"v1", "v2", "v3"}

\* C14: no step of a Load changes the volume or the bind collection; absent a
\* failure of db.Conn or of the query, Load fails with ErrVolumeNotFound, and
\* returns no volume, exactly when the volume collection has no record of the
\* name, and otherwise succeeds and returns the stored record.  The empty
\* results of Binds and ListByApp are not this outcome: absent storage
\* failures they are successes with an empty list.
C14_LoadNotFound ==
    [][\A p \in Procs :
        /\ Acts(p, "Load") => volumes' = volumes /\ binds' = binds
        /\ (Runs(p, "FindId") /\ call[p].op = "Load" /\ Err(p)' \notin StorageErrors) =>
              /\ Err(p)' \in {"", ErrVolumeNotFound}
              /\ Err(p)' = ErrVolumeNotFound <=> ~\E d \in volumes : d.id = call[p].name
              /\ Err(p)' = ErrVolumeNotFound => res'[p].value = {}
              /\ Err(p)' = "" =>
                    \E s \in saved :
                        s.Name = call[p].name /\ res'[p].value = {LoadedVolume(s)}
        /\ ((Done(p, "Binds") \/ Done(p, "ListByApp"))' /\ res'[p].value = {}) =>
              Err(p)' \in {""} \cup StorageErrors]_vars

\* Load of "v3", which is bound to an app and has no record, failed with
\* ErrVolumeNotFound, while other volumes are stored.
C14_Witness ==
    \E p \in Procs :
        /\ Done(p, "Load") /\ call[p].name = "v3" /\ Err(p) = ErrVolumeNotFound
        /\ \E b \in binds : b.id.Volume = "v3"
        /\ volumes # {} /\ res[p].value = {}

\* The elements of a sequence.
Range(seq) == {seq[i] : i \in DOMAIN seq}

\* C15: when the configuration value found for the plan is not a mapping,
\* Validate fails with the plan-opts error and the message carries the type
\* of the value found.
C15_MessageNamesTypeReceived ==
    \A p \in Procs :
        (/\ Done(p, "Validate") /\ call[p].v.Name # ""
         /\ GetPoolByName(call[p].v.Pool).err = ""
         /\ GetTeam(call[p].v.TeamOwner) = ""
         /\ GetProvisioner(call[p].v.Pool).err = ""
         /\ PlanConfig(call[p].v).err = ""
         /\ ~IsMapping(PlanConfig(call[p].v).data)) =>
            /\ Err(p) = ErrInvalidPlanOpts
            /\ PlanConfig(call[p].v).data.type \in Range(res[p].error.detail)

\* The operations that acquire a storage connection, and where their calls
\* are between db.Conn and the return.
ConnOps == {"Save", "BindApp", "UnbindApp", "Binds", "ListByApp", "Load"}
Holding == {"UpsertId", "Insert", "RemoveId", "FindAll", "Distinct", "FindIn", "FindId"}

\* C16: a call of Save, BindApp, UnbindApp, Binds, ListByApp or Load holds
\* one connection from db.Conn to its return and none once it has returned,
\* with or without an error; a call whose db.Conn fails returns that error
\* in the same step, having changed neither collection.
C16_ConnReleased ==
    [][\A p \in Procs :
        /\ pc'[p] \in {"idle", "done"} => conns'[p] = 0
        /\ pc'[p] \in Holding => conns'[p] = 1
        /\ (\E op \in ConnOps : Enters(p, op)) =>
              \/ pc'[p] \in Holding /\ faults' = faults
              \/ pc'[p] = "done" /\ Err(p)' # ErrConn /\ faults' = faults
              \/ /\ pc'[p] = "done" /\ Err(p)' = ErrConn
                 /\ volumes' = volumes /\ binds' = binds
        /\ (pc'[p] = "done" /\ Err(p)' = ErrConn) =>
              pc[p] = "idle" /\ volumes' = volumes /\ binds' = binds]_vars

\* A ListByApp whose second query failed, after the first had found names,
\* returned the error and holds no connection.
C16_Witness ==
    \E p \in Procs :
        /\ Done(p, "ListByApp") /\ Err(p) = ErrStorage
        /\ call[p].volumeNames # {}
        /\ conns[p] = 0

\* C17: in every reachable state every record of the volume collection is
\* stored under its name, which is not empty and is the name of no other
\* record, and its plan options are the mapping the configuration held for
\* the pool and plan of the Save that wrote it, a Save whose Validate had
\* succeeded; they are not what the caller supplied.
C17_StoredVolumesValid ==
    /\ \A d \in volumes : d.id # ""
    /\ \A d1, d2 \in volumes : d1.id = d2.id => d1 = d2
    /\ \A d \in volumes :
          \E s \in saved :
              /\ s.Name = d.id
              /\ Resolves(s) /\ Validate(s).error = NoError
              /\ d.plan.opts = ResolvedOpts(s).kv
              /\ d.pool = s.Pool /\ d.plan.name = s.Plan.Name

\* After a Save that stored the record of a volume whose caller had supplied
\* plan options of its own, a Save of a volume with an empty name and plan
\* options failed: the record holds the configured options.
C17_Witness ==
    /\ \E p \in Procs :
          /\ Done(p, "Save") /\ Err(p) = ErrEmptyName
          /\ ~call[p].v.Plan.Opts.nil
    /\ \E s \in saved, d \in volumes :
          /\ d.id = s.Name
          /\ ~s.Plan.Opts.nil /\ d.plan.opts # s.Plan.Opts.kv
          /\ d.plan.opts = {<<"size", "20Gi">>, <<"class", "fast">>}

\* The checks of Validate in the order claimed: whether v passes each, the
\* error each returns, and the lookups made when check i is the first to
\* fail (the type check makes none of its own).
CheckOrder == <<"pool", "team", "provisioner", "config">>
Passes(v) ==
    <<v.Name # "",
      GetPoolByName(v.Pool).err = "",
      GetTeam(v.TeamOwner) = "",
      GetProvisioner(v.Pool).err = "",
      PlanConfig(v).err = "",
      IsMapping(PlanConfig(v).data)>>
CheckError ==
    <<ErrEmptyName, ErrPoolNotFound, ErrTeamNotFound, ErrNoProvisioner,
      ErrConfigKeyNotFound, ErrInvalidPlanOpts>>
LookupsUpTo(i) == SubSeq(CheckOrder, 1, IF i > 4 THEN 4 ELSE i - 1)

\* C18: Validate checks the name, the pool, the team, the provisioner, the
\* plan configuration and its type in this order: it returns the error of
\* the first check that fails, having consulted the registries of the checks
\* before it and of that check, in order, and no later one; when every check
\* passes it has consulted all four, once each, in order.
C18_CheckOrder ==
    \A p \in Procs :
        Done(p, "Validate") =>
            /\ \A i \in 1..6 :
                  ((\A j \in 1..(i - 1) : Passes(call[p].v)[j]) /\ ~Passes(call[p].v)[i]) =>
                      Err(p) = CheckError[i] /\ lookups[p] = LookupsUpTo(i)
            /\ (\A i \in 1..6 : Passes(call[p].v)[i]) =>
                  Err(p) = "" /\ lookups[p] = CheckOrder

\* Validate of a volume whose pool and team are both unknown, and whose plan
\* has no configuration, returned the pool error: the pool registry is the
\* only lookup made.
C18_Witness ==
    \E p \in Procs :
        /\ Done(p, "Validate") /\ call[p].v.Name # ""
        /\ call[p].v.Pool \notin Pools /\ call[p].v.TeamOwner \notin Teams
        /\ call[p].v.Plan.Name = "plan0"
        /\ Err(p) = ErrPoolNotFound /\ lookups[p] = <<"pool">>

\* C19: a Validate that fails, for whatever reason, leaves its receiver as
\* it was: every field, the plan options its caller supplied included.  A
\* Save that fails in its Validate does so too.
C19_FailedValidateKeepsReceiver ==
    \A p \in Procs :
        /\ (Done(p, "Validate") /\ Err(p) # "") => vol[p] = call[p].v
        /\ (Done(p, "Save") /\ Err(p) \notin {""} \cup StorageErrors) => vol[p] = call[p].v

\* Validate of a volume with plan options of its caller's failed at the type
\* check, the last one: the receiver still holds the caller's options.
C19_Witness ==
    \E p \in Procs :
        /\ Done(p, "Validate") /\ Err(p) = ErrInvalidPlanOpts
        /\ call[p].v.Plan.Opts = MakeMap({<<"size", "1Gi">>})
        /\ vol[p] = call[p].v

\* C20: no step of BindApp, UnbindApp or Binds changes the volume collection
\* and no step of Save changes the bind collection.  What BindApp, UnbindApp
\* and Binds do is decided by the receiver's name and the bind collection
\* alone, whatever the volume collection holds and whatever the receiver's
\* other fields are: absent storage failures, a BindApp with a valid mode
\* succeeds exactly when the triple has no bind record, an UnbindApp exactly
\* when it has one, and Binds returns the records of the name.
C20_BindsIgnoreVolumes ==
    [][\A p \in Procs :
        /\ (\E op \in {"BindApp", "UnbindApp", "Binds"} : Acts(p, op)) =>
              volumes' = volumes /\ saved' = saved
        /\ Acts(p, "Save") => binds' = binds
        /\ (Runs(p, "Insert") /\ Err(p)' \notin StorageErrors) =>
              /\ Err(p)' = "" <=> ~Bound(binds, CallID(p))
              /\ Bound(binds', CallID(p))
        /\ (Runs(p, "RemoveId") /\ Err(p)' \notin StorageErrors) =>
              /\ Err(p)' = "" <=> Bound(binds, CallID(p))
              /\ ~Bound(binds', CallID(p))
        /\ (Runs(p, "FindAll") /\ Err(p)' \notin StorageErrors) =>
              res'[p].value = {b \in binds : b.id.Volume = call[p].v.Name}]_vars

\* A BindApp on a receiver that no Save accepts (its pool does not exist)
\* succeeded: a bind record holds the name "v3", which no Save ever wrote
\* and the volume collection, not empty, has no record of.
C20_Witness ==
    \E p \in Procs :
        /\ Done(p, "BindApp") /\ Err(p) = ""
        /\ call[p].v.Name = "v3" /\ ~Resolves(call[p].v)
        /\ Bound(binds, CallID(p))
        /\ ~\E s \in saved : s.Name = "v3"
        /\ ~\E d \in volumes : d.id = "v3"
        /\ volumes # {}

====
